---- MODULE Spec2Model ----
(***************************************************************************)
(* State-machine model of Decoder.decode of pysigrok_xspiflash.py: the     *)
(* chip-select / clock loop that assembles MOSI and MISO bytes from one or *)
(* four data lines, and the interpretation of each finished transaction.   *)
(*                                                                         *)
(* One action is everything the decoder does between two returns of        *)
(* self.wait: the decoder is a single thread whose only suspension point   *)
(* is self.wait, and what a wait returns (which condition matched, the pin *)
(* values) is the action's input.                                          *)
(***************************************************************************)
EXTENDS Integers, Sequences, FiniteSets, TLC

(***************************************************************************)
(* Bounds of the model.                                                    *)
(***************************************************************************)
\* Most clock edges accumulated in one run of the clock loop while the
\* decoder assembles single-line bytes only (no quad command seen).
MaxClocks == 32
\* Most clock edges accumulated in one run of the clock loop once a quad
\* start point is set.
MaxQuadClocks == 22
\* Most words other than the all-zero word that the bus drives after the
\* command byte within one chip-select window.
MaxMarkedWords == 1
\* Most consecutive transactions that begin with continuous-read mode set.
MaxChain == 2

(***************************************************************************)
(* Program constants.                                                      *)
(***************************************************************************)
\* Python's None, for _quad_start and for the attribute _command before its
\* first assignment.
None == -1

\* CONTINUE_COMMANDS: command byte -> dummy clocks.
CONTINUE_COMMANDS == (107 :> 8) @@ (231 :> 2) @@ (235 :> 4)

DATA_COMMANDS ==
    (3 :> "Read") @@ (11 :> "Fast Read") @@ (91 :> "Read SFDP") @@
    (107 :> "Quad-Output Fast Read") @@ (158 :> "Read JEDEC ID") @@
    (159 :> "Read JEDEC ID") @@ (231 :> "Quad Word Read") @@
    (235 :> "Quad Read") @@ (2 :> "Page Program") @@
    (50 :> "Quad Page Program")

EN4B == 183
EX4B == 233

CONTROL_COMMANDS ==
    (1 :> "Write Status Register 1") @@ (6 :> "Write Enable") @@
    (4 :> "Write Disable") @@ (5 :> "Read Status Register") @@
    (53 :> "Read Status Register 2") @@ (90 :> "Read SFDP Mode") @@
    (117 :> "Program Suspend") @@
    (171 :> "Release Power-down / Device ID") @@
    (EN4B :> "Enable 4 Byte Address") @@ (EX4B :> "Exit 4 Byte Address")

\* Indices into Decoder.annotations.
ANN_CONTROL == 5
ANN_DATA == 6
ANN_ERROR == 7

(***************************************************************************)
(* The inputs: what the bus drives.  The master drives one word at a time. *)
(* On a single-line bus a word is 8 clocks of MOSI with 8 clocks of MISO;  *)
(* on a quad bus a word is 2 clocks of the four lines.                     *)
(***************************************************************************)
\* Command bytes the master sends: Read, Fast Read, the three quad-capable
\* commands, the two address-width toggles (named control commands) and a
\* byte that is in no table.
CommandBytes == {3, 11, 107, 231, 235, EN4B, EX4B, 172}

\* Single-line words after the command byte, as <<MOSI byte, MISO byte>>.
SingleWords == {<<0, 0>>, <<16, 255>>}

\* Quad words of a fresh transaction: address, dummy and data bytes.
QuadWords == {0, 16}

\* Quad words of a continued transaction after its mode byte.
ContinuedWords == {0}

\* The second quad word of a continued transaction, clocks 2 and 3: with the
\* other words 0 the decoder's second MOSI byte is 0x00 or 0x10.
ContinuedAddressWords == {0, 1}

\* Quad words in the place of the mode byte, clocks 14 and 15 of a fresh
\* transaction and the first two clocks of a continued one.  165 = 0xA5
\* carries the continuation signature in its high nibble.  (Sampled on the
\* MOSI line alone 0xA5 gives the bits 0 1: the most significant address byte
\* stays below 0x80 and a 4-byte address fits TLC's integers.)
ModeWords == {0, 165}

\* Session options (Decoder.options): the address width, and the address
\* filter as <<min_address, max_address>>: 0x1000 to 0x100f.
AddressBytesOptions == {1, 2, 3, 4}
FilterOptions == {<<4096, 4111>>}

(***************************************************************************)
(* Pure helpers, one per expression of the source.                         *)
(***************************************************************************)
\* Bit i (0 = least significant) of byte b.
Bit(b, i) == (b \div (2 ^ i)) % 2

\* x << 1 | bit, for bit in {0, 1}.
SingleShift(acc, bit) == acc * 2 + bit

\* d3 << 3 | d2 << 2 | miso << 1 | mosi
QuadPins(d3, d2, miso, mosi) == 8 * d3 + 4 * d2 + 2 * miso + mosi

\* The earlier nibble dropped.
QuadShiftLowOnly(q, data) == data % 16

\* self._quad_data << 4 | data & 0xf
QuadShift(q, data) == q * 16 + (data % 16)

\* The window begun one position early.
InDummyWindowFromFifteen(count, dummy) == 15 <= count /\ count <= 15 + dummy

\* 15 < self._clock_count <= 15 + self._dummy
InDummyWindow(count, dummy) == 15 < count /\ count <= 15 + dummy

\* self._command in CONTINUE_COMMANDS and self._clock_count == 15
ContinueCheckDue(command, count) ==
    command \in DOMAIN CONTINUE_COMMANDS /\ count = 15

\* The signature test inverted.
ContinuationSignatureInverted(q) == ((q \div 16) % 16) * 16 # 160

\* (self._quad_data & 0xf0) == 0xa0
ContinuationSignature(q) == ((q \div 16) % 16) * 16 = 160

\* bytearray.append accepts 0..255 and raises ValueError otherwise.
ByteOK(v) == 0 <= v /\ v <= 255

\* not self._miso_data or not self._mosi_data
NothingAssembled(miso_data, mosi_data) ==
    Len(miso_data) = 0 \/ Len(mosi_data) = 0

\* len(self._mosi_data) < 1 + int(self._address_bytes)
Truncated(mosi_data, address_bytes) == Len(mosi_data) < 1 + address_bytes

\* The loop of lines 222-225: frame_address <<= 8; frame_address += byte.
RECURSIVE FrameAddressUpTo(_, _)
FrameAddressUpTo(mosi_data, i) ==
    IF i = 0 THEN 0
    ELSE FrameAddressUpTo(mosi_data, i - 1) * 256 + mosi_data[1 + i]

\* The address bytes taken least significant first.
RECURSIVE FrameAddressLittleEndian(_, _)
FrameAddressLittleEndian(mosi_data, address_bytes) ==
    IF address_bytes = 0 THEN 0
    ELSE FrameAddressLittleEndian(mosi_data, address_bytes - 1)
         + mosi_data[1 + address_bytes] * (256 ^ (address_bytes - 1))

FrameAddress(mosi_data, address_bytes) ==
    FrameAddressUpTo(mosi_data, address_bytes)

\* self._min_address <= frame_address <= self._max_address
InFilter(lo, frame_address, hi) == lo <= frame_address /\ frame_address <= hi

\* non_data_bytes of lines 228-234: 1, one more for the Fast Read name, two
\* more for the Quad Read name.
NonDataBytes(command) ==
    1 + (IF DATA_COMMANDS[command] = DATA_COMMANDS[11] THEN 1 ELSE 0)
      + (IF DATA_COMMANDS[command] = DATA_COMMANDS[235] THEN 2 ELSE 0)

\* len(self._mosi_data) - int(self._address_bytes) - non_data_bytes
NumDataBytes(mosi_data, address_bytes, command) ==
    Len(mosi_data) - address_bytes - NonDataBytes(command)

\* Python's format of an integer: lower-case or upper-case hexadecimal
\* digits, as a sequence of characters.
LowerHex == <<"0", "1", "2", "3", "4", "5", "6", "7",
              "8", "9", "a", "b", "c", "d", "e", "f">>
UpperHex == <<"0", "1", "2", "3", "4", "5", "6", "7",
              "8", "9", "A", "B", "C", "D", "E", "F">>

RECURSIVE HexDigits(_, _)
HexDigits(n, alphabet) ==
    IF n < 16 THEN <<alphabet[n + 1]>>
    ELSE HexDigits(n \div 16, alphabet) \o <<alphabet[(n % 16) + 1]>>

RECURSIVE ZeroPad(_, _)
ZeroPad(chars, width) ==
    IF Len(chars) >= width THEN chars ELSE ZeroPad(<<"0">> \o chars, width)

\* "{:0Nx}".format(n): zero padded to N characters, the sign included.
AddressFormat(width, n) ==
    IF n >= 0 THEN ZeroPad(HexDigits(n, LowerHex), width)
    ELSE <<"-">> \o ZeroPad(HexDigits(0 - n, LowerHex), width - 1)

\* "{:0" + str(2*int(self._address_bytes)) + "x}", kept as its width.
FormatFor(address_bytes) == 2 * address_bytes

\* f"{DATA_COMMANDS[command]} 0x{start} - 0x{end} ({n} data bytes)"
DataMessage(command, start, end, n) ==
    [name |-> DATA_COMMANDS[command], start |-> start, end |-> end, n |-> n]

\* CONTROL_COMMANDS[command], or f"0x{command:X}".
ControlMessage(command) ==
    IF command \in DOMAIN CONTROL_COMMANDS
    THEN [name |-> CONTROL_COMMANDS[command]]
    ELSE [name |-> "0x", hex |-> HexDigits(command, UpperHex)]

\* "Error!"
ErrorMessage == [name |-> "Error!"]

\* The width counted up by the enable command.
NewAddressBytesCounting(command, address_bytes) ==
    IF command = EN4B THEN address_bytes + 1
    ELSE IF command = EX4B THEN 3
    ELSE address_bytes

\* Lines 245-250: the address width after a control command.
NewAddressBytes(command, address_bytes) ==
    IF command = EN4B THEN 4
    ELSE IF command = EX4B THEN 3
    ELSE address_bytes

\* put_bytes, lines 131-138: the per-byte events of one assembled byte (two
\* binary values, one python value, two annotations of two hexadecimal
\* digits), as one record added to the events put so far.
put_bytes(events, mosi, miso) ==
    Append(events, [miso |-> miso, mosi |-> mosi,
                    miso_text |-> ZeroPad(HexDigits(miso, UpperHex), 2),
                    mosi_text |-> ZeroPad(HexDigits(mosi, UpperHex), 2)])

\* Only data-command annotations put.
EmitsDataOnly(output_type) == output_type = ANN_DATA

\* if output_type != 5: self.put(...)
Emits(output_type) == output_type # ANN_CONTROL

(***************************************************************************)
(* State.                                                                  *)
(***************************************************************************)
VARIABLES
    \* Decoder attributes (reset, lines 102-124, and decode).
    _address_bytes, _address_format, _min_address, _max_address,
    _miso_data, _mosi_data, _clock_count, _mosi_out, _miso_in, _quad_data,
    _quad_start, _continuous, _dummy, _command,
    \* Locals of decode that live across iterations of its while loop.  An
    \* unbound start_address is the empty string (no format gives it).
    start_address, end_address, num_data_bytes,
    \* Where decode is suspended: "wait_cs" (line 143), "wait_first" (line
    \* 163), "wait_next" (line 209), or "raised" once an exception left it.
    pc,
    \* The exception that left decode, "" while none did.
    exception,
    \* Output: the annotations put on out_ann since the last chip-select
    \* assertion.
    put_ann,
    \* Output: the per-byte events put by put_bytes since the last chip-select
    \* assertion.
    put_data,
    \* The level of the chip-select line at the last sample a wait returned.
    cs,
    \* The bus: the word being driven and the number of words other than
    \* zero driven since chip-select fell.
    bus, bus_marked,
    \* The number of consecutive transactions, up to the open one, that began
    \* with _continuous set.
    chain,
    \* History of the run, read by the properties only.
    continued,     \* the open transaction began with _continuous set
    last_step,     \* what the last decoder step was
    last_mode,     \* how the last clock edge was assembled
    bus_command,   \* command byte assembled at clock 7 of the last fresh one
    mode_byte      \* quad byte completed at clock 15 of this transaction

vars == <<_address_bytes, _address_format, _min_address, _max_address,
          _miso_data, _mosi_data, _clock_count, _mosi_out, _miso_in,
          _quad_data, _quad_start, _continuous, _dummy, _command,
          start_address, end_address, num_data_bytes, pc, exception,
          put_ann, put_data, cs, bus, bus_marked, chain, continued,
          last_step,
          last_mode, bus_command, mode_byte>>

session == <<_address_bytes, _address_format, _min_address, _max_address>>
frame_locals == <<start_address, end_address, num_data_bytes>>
history == <<continued, last_step, last_mode, bus_command, mode_byte>>

IdleBus == <<255, 255>>

\* Decoder.reset.
Init ==
    /\ _address_bytes \in AddressBytesOptions
    /\ _address_format = FormatFor(_address_bytes)
    /\ \E f \in FilterOptions : _min_address = f[1] /\ _max_address = f[2]
    /\ _miso_data = <<>>
    /\ _mosi_data = <<>>
    /\ _clock_count = 0
    /\ _mosi_out = 0
    /\ _miso_in = 0
    /\ _quad_data = 0
    /\ _quad_start = None
    /\ _continuous = FALSE
    /\ _dummy = 0
    /\ _command = None
    /\ start_address = <<>>
    /\ end_address = <<>>
    /\ num_data_bytes = 0
    /\ pc = "wait_cs"
    /\ exception = ""
    /\ put_ann = <<>>
    /\ put_data = <<>>
    /\ cs = 1
    /\ bus = IdleBus
    /\ bus_marked = 0
    /\ chain = 0
    /\ continued = FALSE
    /\ last_step = "reset"
    /\ last_mode = "none"
    /\ bus_command = None
    /\ mode_byte = None

(***************************************************************************)
(* Chip-select falls: self.wait([{0: "f"}]) returns; lines 145-162, up to  *)
(* the call of self.wait(clk_cond) on line 163.                            *)
(***************************************************************************)
CSFall ==
    /\ pc = "wait_cs"
    /\ _continuous => chain < MaxChain
    /\ chain' = IF _continuous THEN chain + 1 ELSE 0
    /\ _quad_data' = 0
    /\ IF ~_continuous
       THEN /\ _command' = 0
            /\ _quad_start' = None
            /\ _dummy' = 0
            /\ _mosi_out' = 0
            /\ _miso_in' = 0
            /\ _miso_data' = <<>>
            /\ _mosi_data' = <<>>
            /\ UNCHANGED _clock_count
       ELSE /\ _clock_count' = 8
            /\ _miso_data' = <<0>>
            /\ _mosi_data' = <<_command>>
            /\ UNCHANGED <<_command, _quad_start, _dummy, _mosi_out, _miso_in>>
    /\ pc' = "wait_first"
    /\ put_ann' = <<>>
    /\ put_data' = <<>>
    /\ cs' = 0
    /\ continued' = _continuous
    /\ last_step' = "fall"
    /\ last_mode' = "none"
    /\ mode_byte' = None
    /\ bus_marked' = 0
    /\ bus_command' = IF _continuous THEN bus_command ELSE None
    /\ UNCHANGED <<session, frame_locals, _continuous, exception, bus>>

(***************************************************************************)
(* The value of _clock_count once the pending wait has returned: line 164  *)
(* after the wait of line 163, line 210 after the wait of line 209.        *)
(***************************************************************************)
CountAfterWait == IF pc = "wait_first" THEN 0 ELSE _clock_count + 1

\* The bus carries four lines once a quad start point is set: from clock 8
\* of a fresh transaction, from the first clock of a continued one.
BusIsQuad(count) == _quad_start # None /\ (continued \/ count >= 8)

\* Clock `count` begins a new word on the bus.
WordBoundary(count) ==
    IF BusIsQuad(count) THEN count % 2 = 0 ELSE count % 8 = 0

\* The command byte of a fresh transaction is being driven.
CommandPhase(count) == ~BusIsQuad(count) /\ count < 8

Marked(w) == w # <<0, 0>>

\* The word on the bus at clock `count`: a new one at a word boundary.
BusWords(count) ==
    IF ~WordBoundary(count) THEN {bus}
    ELSE IF CommandPhase(count) THEN {<<c, 255>> : c \in CommandBytes}
    ELSE {w \in (IF ~BusIsQuad(count) THEN SingleWords
                 ELSE IF count = (IF continued THEN 0 ELSE 14)
                      THEN {<<q, 0>> : q \in ModeWords}
                 ELSE IF continued /\ count = 2
                      THEN {<<q, 0>> : q \in ContinuedAddressWords}
                 ELSE IF continued
                      THEN {<<q, 0>> : q \in ContinuedWords}
                      ELSE {<<q, 0>> : q \in QuadWords}) :
             Marked(w) => bus_marked < MaxMarkedWords}

\* The pins sampled at clock `count` while word w is on the bus.
Pins(w, count) ==
    IF BusIsQuad(count)
    THEN LET nibble == IF count % 2 = 0 THEN w[1] \div 16 ELSE w[1] % 16
         IN  [mosi |-> Bit(nibble, 0), miso |-> Bit(nibble, 1),
              d2 |-> Bit(nibble, 2), d3 |-> Bit(nibble, 3)]
    ELSE [mosi |-> Bit(w[1], 7 - (count % 8)),
          miso |-> Bit(w[2], 7 - (count % 8)), d2 |-> 1, d3 |-> 1]

\* self._quad_start is None or self._clock_count < self._quad_start
SingleBranch(count) == _quad_start = None \/ count < _quad_start

(***************************************************************************)
(* Lines 171-185: one clock edge assembled by shifting MOSI and MISO.      *)
(***************************************************************************)
AssembleSingle(count, p) ==
    LET mo == SingleShift(_mosi_out, p.mosi)
        mi == SingleShift(_miso_in, p.miso)
        word_done == count % 8 = 7
        first_word == word_done /\ count = 7
        is_quad == first_word /\ mo \in DOMAIN CONTINUE_COMMANDS
    IN  /\ _command' = IF first_word THEN mo ELSE _command
        /\ _quad_start' = IF is_quad THEN 8 ELSE _quad_start
        /\ _dummy' = IF is_quad THEN CONTINUE_COMMANDS[mo] ELSE _dummy
        /\ bus_command' = IF first_word /\ ~continued THEN mo ELSE bus_command
        /\ IF ~word_done
           THEN /\ _mosi_out' = mo
                /\ _miso_in' = mi
                /\ UNCHANGED <<_mosi_data, _miso_data, exception>>
                /\ pc' = "wait_next"
           ELSE IF ~ByteOK(mo)
           THEN /\ _mosi_out' = mo
                /\ _miso_in' = mi
                /\ UNCHANGED <<_mosi_data, _miso_data>>
                /\ exception' = "ValueError"
                /\ pc' = "raised"
           ELSE IF ~ByteOK(mi)
           THEN /\ _mosi_out' = mo
                /\ _miso_in' = mi
                /\ _mosi_data' = Append(_mosi_data, mo)
                /\ UNCHANGED _miso_data
                /\ exception' = "ValueError"
                /\ pc' = "raised"
           ELSE /\ _mosi_data' = Append(_mosi_data, mo)
                /\ _miso_data' = Append(_miso_data, mi)
                /\ _mosi_out' = 0
                /\ _miso_in' = 0
                /\ UNCHANGED exception
                /\ pc' = "wait_next"
        /\ last_mode' = "single"
        /\ UNCHANGED <<_quad_data, _continuous, mode_byte>>

(***************************************************************************)
(* Lines 187-207: one clock edge assembled from the four data lines.       *)
(***************************************************************************)
AssembleQuad(count, p) ==
    LET q == QuadShift(_quad_data, QuadPins(p.d3, p.d2, p.miso, p.mosi))
        word_done == count % 2 = 1
    IN  /\ IF ~word_done
           THEN /\ _quad_data' = q
                /\ UNCHANGED <<_mosi_data, _miso_data, _continuous,
                               exception, mode_byte>>
                /\ pc' = "wait_next"
           ELSE IF ~ByteOK(q)
           THEN /\ _quad_data' = q
                /\ UNCHANGED <<_mosi_data, _miso_data, _continuous,
                               mode_byte>>
                /\ exception' = "ValueError"
                /\ pc' = "raised"
           ELSE /\ IF ~InDummyWindow(count, _dummy)
                   THEN /\ _mosi_data' = Append(_mosi_data, q)
                        /\ _miso_data' = Append(_miso_data, 0)
                   ELSE /\ _mosi_data' = Append(_mosi_data, 0)
                        /\ _miso_data' = Append(_miso_data, q)
                /\ _continuous' = IF ContinueCheckDue(_command, count)
                                  THEN ContinuationSignature(q)
                                  ELSE _continuous
                /\ mode_byte' = IF count = 15 THEN q ELSE mode_byte
                /\ _quad_data' = 0
                /\ UNCHANGED exception
                /\ pc' = "wait_next"
        /\ last_mode' = "quad"
        /\ UNCHANGED <<_mosi_out, _miso_in, _command, _quad_start, _dummy,
                       bus_command>>

(***************************************************************************)
(* A clock edge: self.wait(clk_cond) returns with matched[1] set; the      *)
(* count is updated (line 164 or 210) and the loop body, lines 167-208,    *)
(* runs up to the next wait on line 209.  The loop tests matched[1] only:  *)
(* with `rise` chip-select rises in the same sample, matched[0] is set too *)
(* and nothing of this step reads it.  The calls of put_bytes on lines     *)
(* 182, 193 and 197 are comments: no per-byte event is put.                *)
(***************************************************************************)
ClockEdge(w, rise) ==
    LET count == CountAfterWait
    IN  /\ pc \in {"wait_first", "wait_next"}
        \* A simultaneous rise is explored in fresh transactions, once each.
        /\ rise => cs = 0 /\ ~continued
        /\ cs' = IF rise THEN 1 ELSE cs
        /\ count < (IF _quad_start # None THEN MaxQuadClocks ELSE MaxClocks)
        /\ w \in BusWords(count)
        /\ bus' = w
        /\ bus_marked' = IF WordBoundary(count) /\ ~CommandPhase(count)
                             /\ Marked(w)
                          THEN bus_marked + 1 ELSE bus_marked
        /\ _clock_count' = count
        /\ IF SingleBranch(count)
           THEN AssembleSingle(count, Pins(w, count))
           ELSE AssembleQuad(count, Pins(w, count))
        /\ last_step' = "edge"
        /\ UNCHANGED <<session, frame_locals, put_ann, put_data, chain,
                       continued>>

(***************************************************************************)
(* Lines 214-253: the interpretation of a transaction that holds bytes.    *)
(***************************************************************************)
Put(output_type, message) ==
    put_ann' = IF Emits(output_type)
               THEN Append(put_ann, [type |-> output_type, message |-> message])
               ELSE put_ann

InterpretData(command) ==
    IF Truncated(_mosi_data, _address_bytes)
    THEN /\ Put(ANN_ERROR, ErrorMessage)
         /\ pc' = "wait_cs"
         /\ UNCHANGED <<frame_locals, exception>>
    ELSE LET frame_address == FrameAddress(_mosi_data, _address_bytes)
             n == NumDataBytes(_mosi_data, _address_bytes, command)
         IN  IF InFilter(_min_address, frame_address, _max_address)
             THEN /\ start_address' = AddressFormat(_address_format, frame_address)
                  /\ num_data_bytes' = n
                  /\ end_address' =
                         AddressFormat(_address_format, frame_address + n - 1)
                  /\ Put(ANN_DATA, DataMessage(command, start_address',
                                               end_address', num_data_bytes'))
                  /\ pc' = "wait_cs"
                  /\ UNCHANGED exception
             \* Line 237 is outside the filter test: it reads the three
             \* locals as an earlier transaction left them.
             ELSE IF start_address = <<>>
             THEN /\ exception' = "UnboundLocalError"
                  /\ pc' = "raised"
                  /\ UNCHANGED <<frame_locals, put_ann>>
             ELSE /\ Put(ANN_DATA, DataMessage(command, start_address,
                                               end_address, num_data_bytes))
                  /\ pc' = "wait_cs"
                  /\ UNCHANGED <<frame_locals, exception>>

InterpretControl(command) ==
    /\ _address_bytes' = NewAddressBytes(command, _address_bytes)
    /\ _address_format' = IF command \in {EN4B, EX4B}
                          THEN FormatFor(_address_bytes')
                          ELSE _address_format
    /\ Put(ANN_CONTROL, ControlMessage(command))
    /\ pc' = "wait_cs"
    /\ UNCHANGED <<frame_locals, exception>>

(***************************************************************************)
(* Chip-select rises with no clock edge in the same sample:                *)
(* self.wait(clk_cond) returns with matched[1] clear; the count is updated *)
(* (line 164 or 210), the loop is left and lines 212-253 run, back to the  *)
(* wait of line 143.  When the line was high already (it rose together     *)
(* with a clock edge) it has fallen since, which no wait of the loop       *)
(* reports, and rises again.                                               *)
(***************************************************************************)
CSRise ==
    /\ pc \in {"wait_first", "wait_next"}
    /\ cs' = 1
    /\ bus' = IdleBus
    /\ _clock_count' = CountAfterWait
    /\ UNCHANGED <<bus_marked, chain, put_data>>
    /\ IF NothingAssembled(_miso_data, _mosi_data)
       THEN /\ pc' = "wait_cs"
            /\ last_step' = "skipped"
            /\ UNCHANGED <<session, frame_locals, exception, put_ann>>
       ELSE LET command == _mosi_data[1]
            IN  /\ last_step' = "interpreted"
                /\ IF command \in DOMAIN DATA_COMMANDS
                   THEN /\ InterpretData(command)
                        /\ UNCHANGED <<_address_bytes, _address_format>>
                   ELSE InterpretControl(command)
                /\ UNCHANGED <<_min_address, _max_address>>
    /\ UNCHANGED <<_miso_data, _mosi_data, _mosi_out, _miso_in, _quad_data,
                   _quad_start, _continuous, _dummy, _command, continued,
                   last_mode, bus_command, mode_byte>>

Next ==
    \/ CSFall
    \/ \E w \in (SingleWords \cup {<<c, 255>> : c \in CommandBytes}
                 \cup {<<q, 0>> : q \in QuadWords \cup ModeWords \cup ContinuedWords
                                           \cup ContinuedAddressWords}) :
       \E rise \in BOOLEAN :
          ClockEdge(w, rise)
    \/ CSRise

Spec == Init /\ [][Next]_vars

(***************************************************************************)
(* Vocabulary of the properties.                                           *)
(***************************************************************************)
\* The last decoder step interpreted a transaction (lines 214-253 ran).
Interpreted == last_step = "interpreted"

\* The command byte the last transaction was interpreted by.
TxCommand == _mosi_data[1]

IsDataCommand(command) == command \in DOMAIN DATA_COMMANDS

\* The big-endian integer of bytes 1..w after the command byte, as a sum of
\* weighted bytes.
RECURSIVE BigEndianFrom(_, _, _)
BigEndianFrom(bytes, w, i) ==
    IF i > w THEN 0
    ELSE bytes[1 + i] * (256 ^ (w - i)) + BigEndianFrom(bytes, w, i + 1)

BigEndian(bytes, w) == BigEndianFrom(bytes, w, 1)

\* The integer a string of lower-case hexadecimal digits denotes.
HexValue(c) == (CHOOSE i \in 1..16 : LowerHex[i] = c) - 1

RECURSIVE ParseHex(_)
ParseHex(chars) ==
    IF chars = <<>> THEN 0
    ELSE ParseHex(SubSeq(chars, 1, Len(chars) - 1)) * 16
         + HexValue(chars[Len(chars)])

\* The data byte count the specification gives a data command.
ExpectedCount(command, length, w) ==
    length - w - 1 - (IF command = 11 THEN 1 ELSE 0)
                   - (IF command = 235 THEN 2 ELSE 0)

\* The last transaction was a data command with all its address bytes.
CompleteDataTx ==
    /\ Interpreted
    /\ IsDataCommand(TxCommand)
    /\ Len(_mosi_data) >= 1 + _address_bytes

AddressInFilter ==
    /\ _min_address <= BigEndian(_mosi_data, _address_bytes)
    /\ BigEndian(_mosi_data, _address_bytes) <= _max_address

(***************************************************************************)
(* C1.  A data-command transaction that holds at least 1 + W MOSI bytes    *)
(* and whose start address lies within the filter puts exactly one         *)
(* data-command annotation: its start address is the big-endian integer of *)
(* MOSI bytes 1..W rendered in 2W hexadecimal digits, its data byte count  *)
(* is the number of MOSI bytes - W - 1, less 1 for Fast Read and less 2    *)
(* for Quad Read, and its end address is start + count - 1.  With W = 3,   *)
(* 03 00 10 00 and 4 data bytes give 001000 - 001003, 4 data bytes.        *)
(***************************************************************************)
C1_DataAnnotation ==
    /\ (CompleteDataTx /\ AddressInFilter) =>
           /\ exception = ""
           /\ Len(put_ann) = 1
           /\ put_ann[1].type = ANN_DATA
           /\ LET m == put_ann[1].message
                  w == _address_bytes
                  n == ExpectedCount(TxCommand, Len(_mosi_data), w)
              IN  /\ m.name = DATA_COMMANDS[TxCommand]
                  /\ Len(m.start) = 2 * w
                  /\ ParseHex(m.start) = BigEndian(_mosi_data, w)
                  /\ m.n = n
                  /\ ParseHex(m.end) = BigEndian(_mosi_data, w) + n - 1
    /\ LET example == <<3, 0, 16, 0, 1, 2, 3, 4>>
       IN  /\ AddressFormat(FormatFor(3), FrameAddress(example, 3))
                  = <<"0", "0", "1", "0", "0", "0">>
           /\ NumDataBytes(example, 3, 3) = 4
           /\ AddressFormat(FormatFor(3), FrameAddress(example, 3)
                                          + NumDataBytes(example, 3, 3) - 1)
                  = <<"0", "0", "1", "0", "0", "3">>

\* A Read of 0x1000 with one data byte was annotated.
C1_Witness ==
    /\ CompleteDataTx
    /\ AddressInFilter
    /\ TxCommand = 3
    /\ Len(put_ann) = 1
    /\ put_ann[1].message.start = <<"1", "0", "0", "0">>
    /\ put_ann[1].message.n = 1

(***************************************************************************)
(* C2.  A data-command transaction that holds at least 1 + W MOSI bytes    *)
(* and whose start address lies outside the filter puts no annotation.     *)
(***************************************************************************)
C2_OutOfFilterPutsNothing ==
    (CompleteDataTx /\ ~AddressInFilter) => put_ann = <<>>

(***************************************************************************)
(* C3.  A transaction that holds at least one byte and whose command byte  *)
(* is not a data command puts exactly one control-command annotation: the  *)
(* name of the command from the control-command table, or the byte as an   *)
(* upper-case hexadecimal literal.                                         *)
(***************************************************************************)
C3_ControlAnnotation ==
    (Interpreted /\ ~IsDataCommand(TxCommand)) =>
        /\ Len(put_ann) = 1
        /\ put_ann[1].type = ANN_CONTROL
        /\ put_ann[1].message =
               IF TxCommand \in DOMAIN CONTROL_COMMANDS
               THEN [name |-> CONTROL_COMMANDS[TxCommand]]
               ELSE [name |-> "0x", hex |-> HexDigits(TxCommand, UpperHex)]

(***************************************************************************)
(* C4.  A transaction of command 0xB7 sets the address width to 4 and one  *)
(* of command 0xE9 sets it to 3; the width changes in no other step; and   *)
(* every data-command annotation put is rendered in the width in force     *)
(* when its transaction is interpreted (8 hexadecimal digits under width   *)
(* 4), the toggle taking effect for later transactions only.               *)
(***************************************************************************)
C4_AddressWidthToggle ==
    [][/\ (Interpreted' /\ pc # "wait_cs" /\ TxCommand' = EN4B)
              => _address_bytes' = 4 /\ _address_format' = 8
       /\ (Interpreted' /\ pc # "wait_cs" /\ TxCommand' = EX4B)
              => _address_bytes' = 3 /\ _address_format' = 6
       /\ ~(Interpreted' /\ pc # "wait_cs" /\ TxCommand' \in {EN4B, EX4B})
              => UNCHANGED <<_address_bytes, _address_format>>
       /\ (pc # "wait_cs" /\ put_ann' # <<>> /\ put_ann'[1].type = ANN_DATA)
              => Len(put_ann'[1].message.start) = 2 * _address_bytes
      ]_vars

(***************************************************************************)
(* C5.  A transaction that begins with continuous-read mode set skips the  *)
(* single-line command phase: its byte sequences begin with the carried    *)
(* command byte, its clock positions resume at 8 and each of its clock     *)
(* edges is assembled from the four data lines.                            *)
(***************************************************************************)
C5_ContinuedSkipsCommandPhase ==
    (continued /\ last_step = "edge") =>
        /\ _mosi_data[1] = bus_command
        /\ _clock_count >= 8
        /\ last_mode = "quad"

(***************************************************************************)
(* C6.  Across a chain of continued transactions the command byte at the   *)
(* head of each MOSI sequence is the one clocked in by the last            *)
(* transaction that was not a continuation, and no bit sampled in a        *)
(* continued transaction replaces the carried command byte.                *)
(***************************************************************************)
C6_CarriedCommand ==
    (continued /\ Len(_mosi_data) >= 1) =>
        /\ _mosi_data[1] = bus_command
        /\ _command = bus_command

(***************************************************************************)
(* C7.  In every transaction, fresh or continued, that completes a quad    *)
(* byte at clock position 15, continuous-read mode is set afterwards if    *)
(* and only if the high nibble of that byte is 0xA.                        *)
(***************************************************************************)
C7_CheckAtFifteen ==
    mode_byte # None => (_continuous <=> (mode_byte \div 16) = 10)

(***************************************************************************)
(* C8, as stated.  Continuous-read mode becomes set only in a transaction  *)
(* whose command byte is quad-capable, only after the dummy-cycle window   *)
(* of that command (positions 16 to 15 + dummy count) has elapsed, and     *)
(* only when the inspected nibble is 0xA.                                  *)
(***************************************************************************)
C8_EntryAfterDummyWindow ==
    [][(~_continuous /\ _continuous') =>
           /\ _command' \in DOMAIN CONTINUE_COMMANDS
           /\ _clock_count' > 15 + _dummy'
           /\ (mode_byte' \div 16) = 10
      ]_vars

(***************************************************************************)
(* C8, amended.  Continuous-read mode becomes set only in a fresh          *)
(* transaction whose command byte is quad-capable (0x6B, 0xE7, 0xEB), only *)
(* at clock position 15, which precedes the dummy-cycle window of that     *)
(* command, and only when the high nibble of the quad byte completed there *)
(* is 0xA; every other step leaves a cleared mode cleared.                 *)
(***************************************************************************)
C8_EntryAtFifteen ==
    [][(~_continuous /\ _continuous') =>
           /\ ~continued'
           /\ _mosi_data'[1] \in {107, 231, 235}
           /\ _command' = _mosi_data'[1]
           /\ last_mode' = "quad"
           /\ _clock_count' = 15
           /\ ~InDummyWindow(_clock_count', _dummy')
           /\ mode_byte' # None
           /\ (mode_byte' \div 16) = 10
      ]_vars

\* Continuous-read mode was just set by the byte at clock position 15.
C8_Witness ==
    /\ _continuous
    /\ ~continued
    /\ last_step = "edge"
    /\ _clock_count = 15

(***************************************************************************)
(* C9.  A chip-select pulse with no clock edge gives no transaction and    *)
(* puts no annotation, whatever earlier transactions left behind.          *)
(***************************************************************************)
C9_EmptyPulseSilent ==
    (pc = "wait_cs" /\ last_step \in {"skipped", "interpreted"}
         /\ _clock_count = 0) =>
        /\ last_step = "skipped"
        /\ put_ann = <<>>

(***************************************************************************)
(* C10.  A data-command transaction with fewer than 1 + W MOSI bytes puts  *)
(* exactly one error annotation with the generic message, leaves the       *)
(* address width, the address format and the filter bounds as they were,   *)
(* and decode waits for the next chip-select assertion.                    *)
(***************************************************************************)
C10_TruncatedDataCommand ==
    [][(/\ pc \in {"wait_first", "wait_next"}
        /\ Interpreted'
        /\ IsDataCommand(TxCommand')
        /\ Len(_mosi_data') < 1 + _address_bytes) =>
           /\ put_ann' = <<[type |-> ANN_ERROR, message |-> [name |-> "Error!"]]>>
           /\ UNCHANGED <<_address_bytes, _address_format, _min_address,
                          _max_address>>
           /\ exception' = ""
           /\ pc' = "wait_cs"
      ]_vars

\* A fresh Read transaction cut short after its command byte was reported.
C10_Witness ==
    /\ Interpreted
    /\ ~continued
    /\ TxCommand = 3
    /\ Len(_mosi_data) < 1 + _address_bytes
    /\ Len(put_ann) = 1
    /\ put_ann[1].type = ANN_ERROR

(***************************************************************************)
(* C11.  Every whole byte assembled in a transaction has its per-byte      *)
(* event, carrying the MISO byte and the MOSI byte, whether or not the     *)
(* transaction's annotation is suppressed by the address filter.           *)
(***************************************************************************)
C11_ByteEvents ==
    pc # "raised" =>
        LET seeded == IF continued THEN 1 ELSE 0
        IN  /\ Len(put_data) = Len(_mosi_data) - seeded
            /\ \A i \in 1..Len(put_data) :
                   /\ put_data[i].mosi = _mosi_data[i + seeded]
                   /\ put_data[i].miso = _miso_data[i + seeded]

(***************************************************************************)
(* C12.  In a transaction that is not a continuation the first 8 clock     *)
(* edges assemble the command byte from MOSI alone; a quad-capable command *)
(* (0x6B, 0xE7, 0xEB) sets the quad start point to 8 and the dummy count   *)
(* to 8, 2 or 4, and each later byte is then the two nibbles sampled on    *)
(* D3, D2, MISO, MOSI at two consecutive edges, the first nibble high; any *)
(* other command leaves every later byte assembled bit by bit onto both    *)
(* the MOSI and the MISO sequence.                                         *)
(***************************************************************************)
C12_FreshAssembly ==
    [][(last_step' = "edge" /\ ~continued') =>
           LET c == _clock_count'
               quad == _mosi_data'[1] \in {107, 231, 235}
           IN  /\ pc' = "wait_next"
               /\ c < 8 => last_mode' = "single"
               /\ c < 7 => _mosi_data' = <<>> /\ _miso_data' = <<>>
               /\ c = 7 =>
                      /\ _mosi_data' = <<bus'[1]>>
                      /\ _miso_data' = <<bus'[2]>>
                      /\ _command' = bus'[1]
                      /\ _quad_start' = IF quad THEN 8 ELSE None
                      /\ _dummy' = CASE bus'[1] = 107 -> 8
                                      [] bus'[1] = 231 -> 2
                                      [] bus'[1] = 235 -> 4
                                      [] OTHER -> 0
               /\ (c >= 8 /\ quad) =>
                      /\ last_mode' = "quad"
                      /\ IF c % 2 = 1
                         THEN /\ Len(_mosi_data') = Len(_mosi_data) + 1
                              /\ Len(_miso_data') = Len(_miso_data) + 1
                              /\ {_mosi_data'[Len(_mosi_data')],
                                  _miso_data'[Len(_miso_data')]} = {bus'[1], 0}
                         ELSE UNCHANGED <<_mosi_data, _miso_data>>
               /\ (c >= 8 /\ ~quad) =>
                      /\ last_mode' = "single"
                      /\ IF c % 8 = 7
                         THEN /\ _mosi_data' = Append(_mosi_data, bus'[1])
                              /\ _miso_data' = Append(_miso_data, bus'[2])
                         ELSE UNCHANGED <<_mosi_data, _miso_data>>
      ]_vars

\* A fresh Quad Read assembled the quad byte 0x10 at clocks 10 and 11.
C12_Witness ==
    /\ ~continued
    /\ last_step = "edge"
    /\ last_mode = "quad"
    /\ _clock_count = 11
    /\ _quad_start = 8
    /\ _dummy = 4
    /\ _mosi_data = <<235, 0, 16>>

(***************************************************************************)
(* C13.  In every reachable state the MOSI byte sequence and the MISO byte *)
(* sequence of the transaction have the same length.                       *)
(***************************************************************************)
C13_EqualLengths == Len(_mosi_data) = Len(_miso_data)

(***************************************************************************)
(* C14.  The address width is 1, 2, 3 or 4 in every reachable state, after *)
(* any number of 0xB7 and 0xE9 commands, and the address format width is   *)
(* twice the address width.                                                *)
(***************************************************************************)
C14_AddressWidthRange ==
    /\ _address_bytes \in {1, 2, 3, 4}
    /\ _address_format = 2 * _address_bytes

\* An Exit 4 Byte Address command set width 3 after an address had been
\* rendered in 8 digits under width 4.
C14_Witness ==
    /\ Interpreted
    /\ TxCommand = EX4B
    /\ _address_bytes = 3
    /\ _address_format = 6
    /\ Len(start_address) = 8

(***************************************************************************)
(* C15.  No sequence of samples makes decode stop with a failure: after    *)
(* every transaction, malformed, truncated, out of the filter or partly    *)
(* clocked, decode waits for the next chip-select assertion.               *)
(***************************************************************************)
C15_NoFailure == exception = "" /\ pc # "raised"

(***************************************************************************)
(* C16.  When chip-select rises in the middle of a word the bits of the    *)
(* incomplete word are discarded: they are added to no byte of that        *)
(* transaction, and the next transaction, fresh or continued, begins with  *)
(* empty accumulators.                                                     *)
(***************************************************************************)
C16_PartialWordDiscarded ==
    [][/\ last_step' \in {"interpreted", "skipped"} =>
              UNCHANGED <<_mosi_data, _miso_data>>
       /\ last_step' = "fall" =>
              /\ _mosi_out' = 0
              /\ _miso_in' = 0
              /\ _quad_data' = 0
      ]_vars

(***************************************************************************)
(* C17.  At a sample where chip-select rises while a transaction is open   *)
(* the clock loop is left and the transaction is handed to interpretation; *)
(* no clock edge at or after that sample is accumulated, also when a clock *)
(* edge occurs in the sample of the rise.                                  *)
(***************************************************************************)
C17_RiseFreezes ==
    [][/\ (cs = 0 /\ cs' = 1) =>
              /\ last_step' \in {"interpreted", "skipped"}
              /\ UNCHANGED <<_mosi_out, _miso_in, _quad_data, _mosi_data,
                             _miso_data>>
       /\ last_step' = "edge" => cs' = 0
      ]_vars

(***************************************************************************)
(* C18.  Each completed quad byte is appended to exactly one sequence and  *)
(* 0 to the other: to the MISO sequence when the clock position at which   *)
(* it completes is one of 16 .. 15 + dummy count, to the MOSI sequence at  *)
(* every position before and after that window.  In a fresh transaction    *)
(* the dummy count is the one of the transaction's command.                *)
(***************************************************************************)
C18_QuadDestination ==
    [][(last_step' = "edge" /\ last_mode' = "quad" /\ _clock_count' % 2 = 1) =>
           LET c == _clock_count'
               byte == bus'[1]
           IN  /\ pc' = "wait_next"
               /\ ~continued' =>
                      _dummy' = CASE _mosi_data'[1] = 107 -> 8
                                  [] _mosi_data'[1] = 231 -> 2
                                  [] _mosi_data'[1] = 235 -> 4
               /\ IF 16 <= c /\ c <= 15 + _dummy'
                  THEN /\ _miso_data' = Append(_miso_data, byte)
                       /\ _mosi_data' = Append(_mosi_data, 0)
                  ELSE /\ _mosi_data' = Append(_mosi_data, byte)
                       /\ _miso_data' = Append(_miso_data, 0)
      ]_vars

\* A Quad Word Read (2 dummy clocks) had the byte 0x10 of clocks 16 and 17
\* appended to the MISO sequence and 0 to the MOSI sequence.
C18_Witness ==
    /\ ~continued
    /\ last_step = "edge"
    /\ last_mode = "quad"
    /\ _mosi_data[1] = 231
    /\ _clock_count = 17
    /\ _miso_data[Len(_miso_data)] = 16
    /\ _mosi_data[Len(_mosi_data)] = 0

(***************************************************************************)
(* C19.  Every value appended to the MOSI or the MISO byte sequence is in  *)
(* 0 .. 255: when a byte completes the accumulator holds the 8 bits, or    *)
(* the 2 nibbles, clocked for it and nothing else, so that no append is    *)
(* refused, after any sequence of fresh, truncated and continued           *)
(* transactions.                                                           *)
(***************************************************************************)
C19_BytesInRange ==
    /\ \A i \in 1..Len(_mosi_data) : _mosi_data[i] \in 0..255
    /\ \A i \in 1..Len(_miso_data) : _miso_data[i] \in 0..255
    /\ (last_step = "edge" /\ last_mode = "single" /\ _clock_count % 8 = 7) =>
           /\ exception # "ValueError"
           /\ _mosi_out = 0
           /\ _miso_in = 0
    /\ (last_step = "edge" /\ last_mode = "quad" /\ _clock_count % 2 = 1) =>
           /\ exception # "ValueError"
           /\ _quad_data = 0

(***************************************************************************)
(* C20.  Every data-command annotation put reports a data byte count that  *)
(* is not negative and an end address not lower than the start address     *)
(* less 1, and not lower than the start address when the count is at       *)
(* least 1.                                                                *)
(***************************************************************************)
C20_CountNotNegative ==
    \A i \in 1..Len(put_ann) :
        put_ann[i].type = ANN_DATA =>
            LET m == put_ann[i].message
            IN  /\ m.n >= 0
                /\ ParseHex(m.end) >= ParseHex(m.start) - 1
                /\ m.n >= 1 => ParseHex(m.end) >= ParseHex(m.start)

====
